---- MODULE Spec2Model ----
(***************************************************************************)
(* The VMware vCenter MCP server as a state machine.                       *)
(*                                                                         *)
(* Two entry points share this module: server.py (the VM lifecycle tools)  *)
(* and app/main.py (find_vm_by_mac).  Each is one process with one global  *)
(* _manager; `program` says which of the two processes a behaviour is.     *)
(*                                                                         *)
(* Everything the code reads from vCenter (inventory listings, a VM's      *)
(* power state, a task's state, a parent link) is an input of the step     *)
(* that reads it, drawn from a small set.                                  *)
(***************************************************************************)
EXTENDS Integers, Sequences, FiniteSets, TLC

VARIABLES
    program,    \* "server" (server.py) or "app" (app/main.py)
    _manager,   \* the module-level global _manager
    mgr,        \* the VMwareManager under construction in __init__
    sessions,   \* sessions connected to the endpoint (SmartConnect succeeded, never disconnected)
    views,      \* container views created and not destroyed
    pc,         \* where the tool invocation in progress stands
    call,       \* the invocation in progress, or the last one: arguments, remote reads, locals
    task,       \* the vCenter task the invocation submitted
    result      \* what the last invocation returned or raised

vars == <<program, _manager, mgr, sessions, views, pc, call, task, result>>

----------------------------------------------------------------------------
(* Bounds of the model *)

MaxVMs == 2        \* VMs in a container view
MaxEntities == 2   \* children of an inventory folder
MaxSessions == 2   \* sessions the model lets the process open
MaxViews == 1      \* leaked views the model lets the process accumulate
MaxPolls == 2      \* non-terminal task observations counted
MaxDevices == 2    \* virtual devices of the VMs of a container view, together
MaxMacLen == 2     \* characters of a target MAC address
MaxChain == 2      \* distinct ancestors of a VM

SeqsUpTo(S, n) == UNION {[1..k -> S] : k \in 0..n}

----------------------------------------------------------------------------
(* Python values *)

\* None, where an object reference is expected
None == [type |-> "None", name |-> ""]

\* None, where a string is expected (os.getenv of an unset variable, an omitted argument)
Unset == "<None>"

\* bool(s) of an Optional[str]
Truthy(s) == s # Unset /\ s # ""

Returned(v) == [status |-> "return", value |-> v]
Raised(e) == [status |-> "raise", exc |-> e]
NoResult == [status |-> "none"]

\* Exception(f"...{arg}...") built by the code; text names the f-string
PyException(text, arg) == [type |-> "Exception", text |-> text, arg |-> arg]

\* a fault object handed over by the remote (pyVmomi raises it, or a task carries it)
RemoteFaults == {[type |-> "MethodFault", text |-> "fault1", arg |-> ""],
                 [type |-> "MethodFault", text |-> "fault2", arg |-> ""]}

\* f"VM '{name}' ..." confirmation strings
Message(text, name) == [text |-> text, name |-> name]

----------------------------------------------------------------------------
(* Inputs *)

VMNames == {"vm1", "vm2"}

\* the VMs of a container view, in the order the listing returns them; ref is
\* the managed object's identity
VMObject(i, n) == [type |-> "VirtualMachine", ref |-> i, name |-> n]
ServerListings == {[i \in 1..Len(ns) |-> VMObject(i, ns[i])] : ns \in SeqsUpTo(VMNames, MaxVMs)}

PowerStates == {"poweredOn", "poweredOff", "suspended"}

NoTask == [kind |-> "none", state |-> "none", error |-> None]

\* an optional environment variable whose characters matter: not set, or set
\* to a string (a sequence of characters)
NotSet == [present |-> FALSE, chars |-> <<>>]
SetTo(chars) == [present |-> TRUE, chars |-> chars]

\* os.environ with none of the variables set
NoEnviron ==
    [VCENTER_HOST |-> Unset, VCENTER_USER |-> Unset, VCENTER_PASSWORD |-> Unset,
     VCENTER_DATACENTER |-> Unset, VCENTER_CLUSTER |-> Unset,
     VCENTER_DATASTORE |-> Unset, VCENTER_NETWORK |-> Unset,
     VCENTER_INSECURE |-> NotSet]

\* an invocation: the tool, its arguments, what it read from the remote and its
\* locals.  listing/fault: the container view and the failing read; vm: what
\* find_vm returned; tasks: the tasks submitted; polls: non-terminal observations;
\* children: while the manager is constructed, the childEntity list of the
\* folder that the next part of _connect_vcenter selects from; environ: the
\* environment of the process where a behaviour fixes it from the start
NoCall == [op |-> "none", name |-> Unset, new_name |-> Unset, children |-> <<>>,
           environ |-> NoEnviron,
           datastore |-> Unset, network |-> Unset,
           dsChildren |-> <<>>, netChildren |-> <<>>,
           listing |-> <<>>, fault |-> 0,
           summary |-> [cpu |-> 0, mem |-> 0, storage |-> [present |-> FALSE, committedMiB |-> 0]],
           counters |-> [raised |-> FALSE, list |-> <<>>],
           query |-> [raised |-> FALSE, res |-> <<>>],
           target |-> <<>>, scan |-> "none", selected |-> [vm |-> 0, device |-> 0],
           frame |-> "none", host |-> [name |-> "", parentType |-> "None", parentName |-> ""],
           match |-> [name |-> "", macAddress |-> <<>>],
           chain |-> [kinds |-> <<>>, back |-> 0], curr |-> 0,
           info |-> [datacenter |-> "Unknown", cluster |-> "Unknown"],
           vm |-> None, powerState |-> "none", tasks |-> <<>>, polls |-> 0]

----------------------------------------------------------------------------
(* server.py: inventory lookups *)

\* the smallest index of `listing` whose VM is named `name`, 0 when there is none
FirstNamed(listing, name) ==
    IF \E i \in 1..Len(listing) : listing[i].name = name
    THEN CHOOSE i \in 1..Len(listing) :
            /\ listing[i].name = name
            /\ \A j \in 1..(i - 1) : listing[j].name # name
    ELSE 0

\* VMwareManager.find_vm.  `fault` is the index of the VM whose name cannot be
\* read (the property read raises), 0 when every read succeeds.  The loop reads
\* names up to the first match; the view is destroyed only after the loop.
find_vm(name, listing, fault) ==
    LET m == FirstNamed(listing, name)
        reads == IF m = 0 THEN Len(listing) ELSE m
        raised == fault # 0 /\ fault <= reads
    IN [raised |-> raised,
        vm |-> IF raised \/ m = 0 THEN None ELSE listing[m],
        destroyed |-> ~raised]

----------------------------------------------------------------------------
(* Configuration and session initialization *)

\* values of a required environment variable: unset, empty, set
RequiredValues == {Unset, "", "set"}

\* the environment load_config reads
Environments ==
    [VCENTER_HOST : RequiredValues, VCENTER_USER : RequiredValues,
     VCENTER_PASSWORD : RequiredValues,
     VCENTER_DATACENTER : {Unset, "dc1"}, VCENTER_CLUSTER : {Unset, "cl1"},
     VCENTER_DATASTORE : {Unset, "ds1"}, VCENTER_NETWORK : {Unset, "net1"},
     VCENTER_INSECURE : {NotSet}]

\* str.lower on the letters the values of VCENTER_INSECURE are written with
AsciiLower(ch) ==
    CASE ch = "T" -> "t" [] ch = "R" -> "r" [] ch = "U" -> "u" [] ch = "E" -> "e"
      [] ch = "Y" -> "y" [] ch = "S" -> "s" [] ch = "F" -> "f" [] ch = "A" -> "a"
      [] ch = "L" -> "l" [] ch = "N" -> "n" [] ch = "O" -> "o"
      [] OTHER -> ch

StrLower(chars) == [i \in 1..Len(chars) |-> AsciiLower(chars[i])]

\* os.getenv("VCENTER_INSECURE", "false").lower() in ("1", "true", "yes")
Insecure(env) ==
    LET value == IF env.VCENTER_INSECURE.present THEN env.VCENTER_INSECURE.chars
                 ELSE <<"f", "a", "l", "s", "e">>
    IN  StrLower(value) \in {<<"1">>, <<"t", "r", "u", "e">>, <<"y", "e", "s">>}

\* a test for None in place of the truth test
RequiredPresent_NotNone(env) ==
    env.VCENTER_HOST # Unset /\ env.VCENTER_USER # Unset /\ env.VCENTER_PASSWORD # Unset

\* all([host, user, password])
RequiredPresent(env) ==
    Truthy(env.VCENTER_HOST) /\ Truthy(env.VCENTER_USER) /\ Truthy(env.VCENTER_PASSWORD)

\* load_config's Config(...)
Config(env) ==
    [vcenter_host |-> env.VCENTER_HOST, vcenter_user |-> env.VCENTER_USER,
     vcenter_password |-> env.VCENTER_PASSWORD,
     datacenter |-> env.VCENTER_DATACENTER, cluster |-> env.VCENTER_CLUSTER,
     datastore |-> env.VCENTER_DATASTORE, network |-> env.VCENTER_NETWORK,
     insecure |-> Insecure(env)]

NoConfig == [vcenter_host |-> Unset, vcenter_user |-> Unset, vcenter_password |-> Unset,
             datacenter |-> Unset, cluster |-> Unset, datastore |-> Unset, network |-> Unset,
             insecure |-> FALSE]

\* an inventory object below a folder
Entity(t, n, f) == [type |-> t, name |-> n, freeSpace |-> f]

RootEntities == {Entity("Datacenter", "dc1", 0), Entity("Folder", "dc1", 0)}
HostFolderEntities == {Entity("ClusterComputeResource", "cl1", 0),
                       Entity("ComputeResource", "cl1", 0),
                       Entity("Folder", "cl1", 0)}
DatastoreEntities == {Entity("Datastore", "ds1", 1), Entity("Datastore", "ds2", 2),
                      Entity("Folder", "ds1", 0)}
NetworkEntities == {Entity("Network", "net1", 0),
                    Entity("DistributedVirtualPortgroup", "net2", 0)}

\* next((x for x in children if x in wanted), None): `wanted` is the set of
\* objects that pass the generator's test
FirstWhere(children, wanted) ==
    IF \E i \in 1..Len(children) : children[i] \in wanted
    THEN children[CHOOSE i \in 1..Len(children) :
                    children[i] \in wanted /\ \A j \in 1..(i - 1) : children[j] \notin wanted]
    ELSE None

\* isinstance(x, vim.ComputeResource): ClusterComputeResource is a subclass
IsComputeResource(x) == x.type \in {"ComputeResource", "ClusterComputeResource"}

\* a default that takes the first datastore of the listing, as the other
\* defaults do
MaxFreeSpace_First(datastores) == datastores[1]

\* max(datastores, key=freeSpace): the first of the maximal ones
MaxFreeSpace(datastores) ==
    datastores[CHOOSE i \in 1..Len(datastores) :
        /\ \A j \in 1..Len(datastores) : datastores[j].freeSpace <= datastores[i].freeSpace
        /\ \A j \in 1..(i - 1) : datastores[j].freeSpace < datastores[i].freeSpace]

\* [x for x in children if x in wanted]
Filter(children, wanted) == SelectSeq(children, LAMBDA x : x \in wanted)

\* the VMwareManager object of server.py while __init__ runs
NewManager(config) ==
    [type |-> "VMwareManager", name |-> "", config |-> config, datacenter_obj |-> None,
     resource_pool |-> None, datastore_obj |-> None, network_obj |-> None]

\* __init__ raised: the object is dropped, _manager stays None, the exception
\* reaches the tool's caller
InitFails(e) ==
    /\ mgr' = None
    /\ result' = Raised(e)
    /\ pc' = "idle"
    /\ UNCHANGED <<program, _manager, sessions, views, call, task>>

\* get_manager when _manager is None, in the environment env: load_config,
\* VMwareManager.__init__ and the connection part of _connect_vcenter, which
\* ends with the read of the root folder's children.  c is the record of the
\* invocation
Construct(env, c) ==
    \/ /\ ~RequiredPresent(env)
       /\ result' = Raised(PyException("Missing required environment variables", ""))
       /\ call' = c
       /\ pc' = "idle"
       /\ UNCHANGED <<program, _manager, mgr, sessions, views>>
    \/ /\ RequiredPresent(env)
       /\ \E f \in RemoteFaults :
            /\ result' = Raised(f)
            /\ call' = c
            /\ pc' = "idle"
            /\ UNCHANGED <<program, _manager, mgr, sessions, views>>
    \/ /\ RequiredPresent(env)
       /\ sessions < MaxSessions
       /\ sessions' = sessions + 1
       /\ mgr' = NewManager(Config(env))
       /\ \E children \in SeqsUpTo(RootEntities, MaxEntities) :
            call' = [c EXCEPT !.children = children]
       /\ result' = NoResult
       /\ pc' = "init_datacenter"
       /\ UNCHANGED <<program, _manager, views>>

\* server.py get_manager; the environment is read when the manager is built
get_manager ==
    /\ program = "server"
    /\ pc = "idle"
    /\ task' = NoTask
    /\ \/ /\ _manager # None
          /\ pc' = "ready"
          /\ call' = NoCall
          /\ result' = NoResult
          /\ UNCHANGED <<program, _manager, mgr, sessions, views>>
       \/ /\ _manager = None
          /\ \E env \in Environments : Construct(env, NoCall)

\* _connect_vcenter: "Retrieve target datacenter object", from the children
\* of the root folder; then the children of the datacenter's host folder are read
connect_datacenter ==
    /\ pc = "init_datacenter"
    /\  LET children == call.children
            named == {dc \in RootEntities :
                         dc.type = "Datacenter" /\ dc.name = mgr.config.datacenter}
            any == {dc \in RootEntities : dc.type = "Datacenter"}
            obj == IF Truthy(mgr.config.datacenter) THEN FirstWhere(children, named)
                   ELSE FirstWhere(children, any)
        IN  \/ /\ obj = None
               /\ InitFails(IF Truthy(mgr.config.datacenter)
                            THEN PyException("Datacenter not found", mgr.config.datacenter)
                            ELSE PyException("No datacenter object found", ""))
            \/ /\ obj # None
               /\ mgr' = [mgr EXCEPT !.datacenter_obj = obj]
               /\ \E next \in SeqsUpTo(HostFolderEntities, MaxEntities) :
                    call' = [call EXCEPT !.children = next]
               /\ pc' = "init_compute"
               /\ UNCHANGED <<program, _manager, sessions, views, task, result>>

\* _connect_vcenter: "Retrieve resource pool", from the children of the host
\* folder; then the children of the datastore folder are read
connect_compute ==
    /\ pc = "init_compute"
    /\  LET children == call.children
            named == {cr \in HostFolderEntities :
                         cr.type = "ClusterComputeResource" /\ cr.name = mgr.config.cluster}
            any == {cr \in HostFolderEntities : IsComputeResource(cr)}
            obj == IF Truthy(mgr.config.cluster) THEN FirstWhere(children, named)
                   ELSE FirstWhere(children, any)
        IN  \/ /\ obj = None
               /\ InitFails(IF Truthy(mgr.config.cluster)
                            THEN PyException("Cluster not found", mgr.config.cluster)
                            ELSE PyException("No compute resource (cluster or host) found", ""))
            \/ /\ obj # None
               /\ mgr' = [mgr EXCEPT !.resource_pool = Entity("ResourcePool", obj.name, 0)]
               /\ \E next \in SeqsUpTo(DatastoreEntities, MaxEntities) :
                    call' = [call EXCEPT !.children = next]
               /\ pc' = "init_datastore"
               /\ UNCHANGED <<program, _manager, sessions, views, task, result>>

\* _connect_vcenter: "Retrieve datastore object", from the children of the
\* datastore folder.  call.children then holds the children of the network
\* folder, which the code reads only when a network is configured
connect_datastore ==
    /\ pc = "init_datastore"
    /\  LET children == call.children
            named == {ds \in DatastoreEntities :
                         ds.type = "Datastore" /\ ds.name = mgr.config.datastore}
            any == {ds \in DatastoreEntities : ds.type = "Datastore"}
            datastores == Filter(children, any)
            obj == IF Truthy(mgr.config.datastore) THEN FirstWhere(children, named)
                   ELSE IF datastores = <<>> THEN None
                   ELSE MaxFreeSpace(datastores)
        IN  \/ /\ obj = None
               /\ InitFails(IF Truthy(mgr.config.datastore)
                            THEN PyException("Datastore not found", mgr.config.datastore)
                            ELSE PyException("No available datastore found in the datacenter", ""))
            \/ /\ obj # None
               /\ mgr' = [mgr EXCEPT !.datastore_obj = obj]
               /\ \E next \in SeqsUpTo(NetworkEntities, MaxEntities) :
                    call' = [call EXCEPT !.children = next]
               /\ pc' = "init_network"
               /\ UNCHANGED <<program, _manager, sessions, views, task, result>>

\* the manager once constructed: config is read by _connect_vcenter alone and
\* is not carried further
Constructed(m) ==
    [type |-> "VMwareManager", name |-> "", datacenter_obj |-> m.datacenter_obj,
     resource_pool |-> m.resource_pool, datastore_obj |-> m.datastore_obj,
     network_obj |-> m.network_obj]

\* _connect_vcenter: "Retrieve network object", then __init__ returns and
\* get_manager stores the manager in _manager
connect_network ==
    /\ pc = "init_network"
    /\  LET children == call.children
            named == {net \in NetworkEntities : net.name = mgr.config.network}
            obj == IF Truthy(mgr.config.network) THEN FirstWhere(children, named) ELSE None
        IN  \/ /\ Truthy(mgr.config.network)
               /\ obj = None
               /\ InitFails(PyException("Network not found", mgr.config.network))
            \/ /\ Truthy(mgr.config.network) => obj # None
               /\ _manager' = Constructed([mgr EXCEPT !.network_obj = obj])
               /\ mgr' = None
               /\ call' = [NoCall EXCEPT !.environ = call.environ]
               /\ pc' = "ready"
               /\ UNCHANGED <<program, sessions, views, task, result>>

\* app/main.py get_manager, with VMwareManager.__init__ and _connect_vcenter
app_get_manager ==
    /\ program = "app"
    /\ pc = "idle"
    /\ call' = NoCall
    /\ task' = NoTask
    /\ mgr' = None
    /\ \/ /\ _manager # None
          /\ pc' = "ready"
          /\ result' = NoResult
          /\ UNCHANGED <<program, _manager, sessions, views>>
       \/ /\ _manager = None
          /\ \E env \in Environments :
                \/ /\ ~RequiredPresent(env)
                   /\ result' = Raised(PyException("Missing required environment variables", ""))
                   /\ pc' = "idle"
                   /\ UNCHANGED <<program, _manager, sessions, views>>
                \/ /\ RequiredPresent(env)
                   /\ \E f \in RemoteFaults :
                        /\ result' = Raised(f)
                        /\ pc' = "idle"
                        /\ UNCHANGED <<program, _manager, sessions, views>>
                \/ /\ RequiredPresent(env)
                   /\ sessions < MaxSessions
                   /\ sessions' = sessions + 1
                   /\ _manager' = [type |-> "VMwareManager", name |-> ""]
                   /\ result' = NoResult
                   /\ pc' = "ready"
                   /\ UNCHANGED <<program, views>>

----------------------------------------------------------------------------
(* server.py: the tools *)

\* VMwareManager.list_vms, called by the list_vms tool
list_vms ==
    /\ program = "server"
    /\ pc = "ready"
    /\ \E listing \in ServerListings, fault \in 0..MaxVMs :
        /\ fault <= Len(listing)
        /\ call' = [NoCall EXCEPT !.op = "list_vms", !.listing = listing, !.fault = fault]
        /\ \/ /\ fault = 0
              /\ result' = Returned([names |-> [i \in 1..Len(listing) |-> listing[i].name]])
              /\ views' = views
           \/ /\ fault # 0
              /\ views < MaxViews
              /\ \E f \in RemoteFaults : result' = Raised(f)
              /\ views' = views + 1
    /\ pc' = "idle"
    /\ UNCHANGED <<program, _manager, mgr, sessions, task>>


\* what the tools that resolve a VM by name share: find_vm raised (the view is
\* left behind), or it returned None and the tool raises its not-found exception
LookupFails(c, found, notFoundText) ==
    /\ \/ /\ found.raised
          /\ views < MaxViews
          /\ views' = views + 1
          /\ \E f \in RemoteFaults : result' = Raised(f)
       \/ /\ ~found.raised
          /\ found.vm = None
          /\ views' = views
          /\ result' = Raised(PyException(notFoundText, c.name))
    /\ call' = c
    /\ task' = NoTask
    /\ pc' = "idle"

\* task = <object>.<kind>(...): the task is submitted and the poll loop starts
Submit(c, kind) ==
    /\ call' = [c EXCEPT !.tasks = Append(@, kind)]
    /\ task' = [kind |-> kind, state |-> "submitted", error |-> None]
    /\ result' = NoResult
    /\ views' = views
    /\ pc' = "poll"

\* a power-on test that compares with the wrong state (the test of power_off_vm
\* pasted into power_on_vm)
AlreadyPoweredOn_Swapped(powerState) == powerState = "poweredOff"

\* power_on_vm's test of vm.runtime.powerState
AlreadyPoweredOn(powerState) == powerState = "poweredOn"

\* power_off_vm's test of vm.runtime.powerState
AlreadyPoweredOff(powerState) == powerState = "poweredOff"

\* VMwareManager.power_on_vm up to the submission of the task
power_on_vm ==
    /\ program = "server"
    /\ pc = "ready"
    /\ \E name \in VMNames, listing \in ServerListings, fault \in 0..MaxVMs :
        /\ fault <= Len(listing)
        /\ LET found == find_vm(name, listing, fault)
               c == [NoCall EXCEPT !.op = "power_on_vm", !.name = name,
                                   !.listing = listing, !.fault = fault, !.vm = found.vm]
           IN  \/ LookupFails(c, found, "Virtual machine not found")
               \/ /\ found.vm # None
                  /\ \E powerState \in PowerStates :
                       LET d == [c EXCEPT !.powerState = powerState]
                       IN  \/ /\ AlreadyPoweredOn(powerState)
                              /\ result' = Returned(Message("is already powered on", name))
                              /\ call' = d
                              /\ task' = NoTask
                              /\ views' = views
                              /\ pc' = "idle"
                           \/ /\ ~AlreadyPoweredOn(powerState)
                              /\ Submit(d, "PowerOnVM_Task")
    /\ UNCHANGED <<program, _manager, mgr, sessions>>

\* VMwareManager.power_off_vm up to the submission of the task
power_off_vm ==
    /\ program = "server"
    /\ pc = "ready"
    /\ \E name \in VMNames, listing \in ServerListings, fault \in 0..MaxVMs :
        /\ fault <= Len(listing)
        /\ LET found == find_vm(name, listing, fault)
               c == [NoCall EXCEPT !.op = "power_off_vm", !.name = name,
                                   !.listing = listing, !.fault = fault, !.vm = found.vm]
           IN  \/ LookupFails(c, found, "Virtual machine not found")
               \/ /\ found.vm # None
                  /\ \E powerState \in PowerStates :
                       LET d == [c EXCEPT !.powerState = powerState]
                       IN  \/ /\ AlreadyPoweredOff(powerState)
                              /\ result' = Returned(Message("is already powered off", name))
                              /\ call' = d
                              /\ task' = NoTask
                              /\ views' = views
                              /\ pc' = "idle"
                           \/ /\ ~AlreadyPoweredOff(powerState)
                              /\ Submit(d, "PowerOffVM_Task")
    /\ UNCHANGED <<program, _manager, mgr, sessions>>

\* VMwareManager.delete_vm up to the submission of the task
delete_vm ==
    /\ program = "server"
    /\ pc = "ready"
    /\ \E name \in VMNames, listing \in ServerListings, fault \in 0..MaxVMs :
        /\ fault <= Len(listing)
        /\ LET found == find_vm(name, listing, fault)
               c == [NoCall EXCEPT !.op = "delete_vm", !.name = name,
                                   !.listing = listing, !.fault = fault, !.vm = found.vm]
           IN  \/ LookupFails(c, found, "Virtual machine not found")
               \/ /\ found.vm # None
                  /\ Submit(c, "Destroy_Task")
    /\ UNCHANGED <<program, _manager, mgr, sessions>>

NewNames == {"new1"}

\* VMwareManager.clone_vm up to the submission of the task
clone_vm ==
    /\ program = "server"
    /\ pc = "ready"
    /\ \E template_name \in VMNames, new_name \in NewNames,
          listing \in ServerListings, fault \in 0..MaxVMs :
        /\ fault <= Len(listing)
        /\ LET found == find_vm(template_name, listing, fault)
               c == [NoCall EXCEPT !.op = "clone_vm", !.name = template_name,
                                   !.new_name = new_name,
                                   !.listing = listing, !.fault = fault, !.vm = found.vm]
           IN  \/ LookupFails(c, found, "Template virtual machine not found")
               \/ /\ found.vm # None
                  /\ Submit(c, "Clone")
    /\ UNCHANGED <<program, _manager, mgr, sessions>>

\* the optional datastore / network argument of create_vm
DatastoreArgs == {Unset, "", "ds1"}
NetworkArgs == {Unset, "", "net1"}

\* a resolution that falls back to the default datastore when the named one
\* is not in the folder
ResolveDatastore_Fallback(datastore, children, default) ==
    LET named == {ds \in DatastoreEntities : ds.type = "Datastore" /\ ds.name = datastore}
    IN  IF Truthy(datastore) /\ FirstWhere(children, named) # None
        THEN FirstWhere(children, named)
        ELSE default

\* create_vm: the datastore the disk is placed on.  None stands for the raise
\* of "Specified datastore not found"
ResolveDatastore(datastore, children, default) ==
    LET named == {ds \in DatastoreEntities : ds.type = "Datastore" /\ ds.name = datastore}
    IN  IF Truthy(datastore) THEN FirstWhere(children, named) ELSE default

\* create_vm: the network of the adapter, None for no adapter.  found is FALSE
\* for the raise of "Specified network not found"
ResolveNetwork(network, children, default) ==
    LET named == {net \in NetworkEntities : net.name = network}
    IN  IF Truthy(network)
        THEN [found |-> FirstWhere(children, named) # None, obj |-> FirstWhere(children, named)]
        ELSE [found |-> TRUE, obj |-> default]

\* a create_vm that stores what it resolved in the manager's attributes
Attributes_Overridden(manager, datastore_obj, network_obj) ==
    [manager EXCEPT !.datastore_obj = datastore_obj, !.network_obj = network_obj]

\* the manager's attributes after create_vm has resolved its datastore and
\* network: the resolved objects are bound to the locals datastore_obj and
\* network_obj, no attribute of self is assigned
Attributes(manager, datastore_obj, network_obj) == manager

\* VMwareManager.create_vm up to the submission of the task
create_vm ==
    /\ program = "server"
    /\ pc = "ready"
    /\ \E name \in NewNames, datastore \in DatastoreArgs, network \in NetworkArgs,
          dsChildren \in SeqsUpTo(DatastoreEntities, MaxEntities),
          netChildren \in SeqsUpTo(NetworkEntities, MaxEntities) :
        \* a folder is listed only when its argument is given
        /\ ~Truthy(datastore) => dsChildren = <<>>
        /\ LET datastore_obj == ResolveDatastore(datastore, dsChildren, _manager.datastore_obj)
               c == [NoCall EXCEPT !.op = "create_vm", !.name = name,
                                   !.datastore = datastore, !.network = network,
                                   !.dsChildren = dsChildren]
           IN  \/ /\ datastore_obj = None
                  /\ netChildren = <<>>
                  /\ result' = Raised(PyException("Specified datastore not found", datastore))
                  /\ _manager' = Attributes(_manager, datastore_obj, _manager.network_obj)
                  /\ call' = c
                  /\ task' = NoTask
                  /\ pc' = "idle"
                  /\ views' = views
               \/ /\ datastore_obj # None
                  /\ ~Truthy(network) => netChildren = <<>>
                  /\ LET net == ResolveNetwork(network, netChildren, _manager.network_obj)
                         d == [c EXCEPT !.netChildren = netChildren]
                     IN  \/ /\ ~net.found
                            /\ _manager' = Attributes(_manager, datastore_obj, net.obj)
                            /\ result' = Raised(PyException("Specified network not found", network))
                            /\ call' = d
                            /\ task' = NoTask
                            /\ pc' = "idle"
                            /\ views' = views
                         \/ /\ net.found
                            /\ _manager' = Attributes(_manager, datastore_obj, net.obj)
                            /\ Submit(d, "CreateVM_Task")
    /\ UNCHANGED <<program, mgr, sessions>>

----------------------------------------------------------------------------
(* server.py: get_vm_performance *)

\* an int, or None where an int is expected
PyInt(v) == [none |-> FALSE, int |-> v]
PyNone == [none |-> TRUE, int |-> 0]

\* n / d rounded to the nearest integer, ties to even (Python's round)
RoundHalfEven(n, d) ==
    LET q == n \div d
        r == n % d
    IN  IF 2 * r < d THEN q
        ELSE IF 2 * r > d THEN q + 1
        ELSE IF q % 2 = 0 THEN q ELSE q + 1

\* round(committed / (1024**3), 2), in hundredths of a GB; committed is kept in
\* units of 2^20 bytes, 0 when the summary has no storage
StorageUsage(storage) ==
    LET committed == IF storage.present THEN storage.committedMiB ELSE 0
    IN  RoundHalfEven(committed * 100, 1024)

\* vm.summary: quick stats and committed storage (10752 MiB = 11,274,289,152 bytes)
Summaries ==
    [cpu : {100}, mem : {512},
     storage : {[present |-> FALSE, committedMiB |-> 0],
                [present |-> TRUE, committedMiB |-> 10752]}]

PerfCounter(key, fullName) == [key |-> key, fullName |-> fullName]
Transmitted == PerfCounter(1, "net.transmitted.average")
Received == PerfCounter(2, "net.received.average")
CpuUsage == PerfCounter(3, "cpu.usage.average")

\* pm.perfCounter: the read raises, or lists the counters
PerfCounterReads ==
    {[raised |-> TRUE, list |-> <<>>]} \cup
    {[raised |-> FALSE, list |-> l] :
        l \in {<<>>, <<Transmitted>>,
               <<CpuUsage, Transmitted, Received>>, <<Received, Transmitted>>}}

Series(counterId, value) == [counterId |-> counterId, value |-> value]

\* pm.QueryStats: the call raises, or returns one entity metric per query spec
\* (none when the entity has no data), each a list of series
QueryResults ==
    {[raised |-> TRUE, res |-> <<>>]} \cup
    {[raised |-> FALSE, res |-> r] :
        r \in {<<>>,
               << <<Series(1, <<5>>), Series(2, <<7>>)>> >>,
               << <<Series(2, <<7>>), Series(1, <<5, 3>>)>> >>}}

RECURSIVE SumSeq(_)
SumSeq(values) == IF values = <<>> THEN 0 ELSE Head(values) + SumSeq(Tail(values))

IsNetCounter(c) == c.fullName \in {"net.transmitted.average", "net.received.average"}

\* the loop over stats_res[0].value from series i on; counter_ids[1] of a
\* one-element list raises IndexError
RECURSIVE NetLoop(_, _, _, _)
NetLoop(series, i, counter_ids, acc) ==
    IF i > Len(series) THEN acc
    ELSE IF series[i].counterId = counter_ids[1]
         THEN NetLoop(series, i + 1, counter_ids, [acc EXCEPT !.tx = SumSeq(series[i].value)])
    ELSE IF Len(counter_ids) < 2 THEN [acc EXCEPT !.raised = TRUE]
    ELSE IF series[i].counterId = counter_ids[2]
         THEN NetLoop(series, i + 1, counter_ids, [acc EXCEPT !.rx = SumSeq(series[i].value)])
    ELSE NetLoop(series, i + 1, counter_ids, acc)

\* the body of get_vm_performance's try block: raised, or the two totals
NetworkQuery(counters, query) ==
    LET nets == SelectSeq(counters.list, IsNetCounter)
        counter_ids == [i \in 1..Len(nets) |-> nets[i].key]
        zero == [raised |-> FALSE, tx |-> 0, rx |-> 0]
        failed == [raised |-> TRUE, tx |-> 0, rx |-> 0]
    IN  IF counters.raised THEN failed
        ELSE IF counter_ids = <<>> THEN zero
        ELSE IF query.raised THEN failed
        ELSE IF query.res = <<>> THEN failed
        ELSE NetLoop(query.res[1], 1, counter_ids, zero)

\* an except branch that reports 0 for both fields
NetworkFields_Zero(net) ==
    IF net.raised
    THEN [network_transmit_KBps |-> PyInt(0), network_receive_KBps |-> PyInt(0)]
    ELSE [network_transmit_KBps |-> PyInt(net.tx), network_receive_KBps |-> PyInt(net.rx)]

\* the two network fields: the totals, or None from the except branch
NetworkFields(net) ==
    IF net.raised
    THEN [network_transmit_KBps |-> PyNone, network_receive_KBps |-> PyNone]
    ELSE [network_transmit_KBps |-> PyInt(net.tx), network_receive_KBps |-> PyInt(net.rx)]

\* VMwareManager.get_vm_performance
get_vm_performance ==
    /\ program = "server"
    /\ pc = "ready"
    /\ \E vm_name \in VMNames, listing \in ServerListings, fault \in 0..MaxVMs :
        /\ fault <= Len(listing)
        /\ LET found == find_vm(vm_name, listing, fault)
               c == [NoCall EXCEPT !.op = "get_vm_performance", !.name = vm_name,
                                   !.listing = listing, !.fault = fault, !.vm = found.vm]
           IN  \/ LookupFails(c, found, "VM not found")
               \/ /\ found.vm # None
                  /\ \E summary \in Summaries, counters \in PerfCounterReads,
                        query \in QueryResults :
                       LET fields == NetworkFields(NetworkQuery(counters, query))
                       IN  /\ result' = Returned(
                                  [cpu_usage |-> summary.cpu,
                                   memory_usage |-> summary.mem,
                                   storage_usage |-> StorageUsage(summary.storage),
                                   network_transmit_KBps |-> fields.network_transmit_KBps,
                                   network_receive_KBps |-> fields.network_receive_KBps])
                           /\ call' = [c EXCEPT !.summary = summary, !.counters = counters,
                                                !.query = query]
                  /\ task' = NoTask
                  /\ views' = views
                  /\ pc' = "idle"
    /\ UNCHANGED <<program, _manager, mgr, sessions>>

----------------------------------------------------------------------------
(* server.py: the poll loop *)

\* the f-string each mutating tool returns
Confirmation(c) ==
    CASE c.op = "create_vm" -> Message("created", c.name)
      [] c.op = "clone_vm" -> [text |-> "cloned from", name |-> c.new_name, template |-> c.name]
      [] c.op = "delete_vm" -> Message("deleted", c.name)
      [] c.op = "power_on_vm" -> Message("powered on", c.name)
      [] c.op = "power_off_vm" -> Message("powered off", c.name)

\* an outcome that raises a new exception in place of the task's error object
TaskOutcome_Wrapped(c, t) ==
    IF t.state = "error" THEN Raised(PyException("Task failed", c.name))
    ELSE Returned(Confirmation(c))

\* after the poll loop: raise task.info.error on "error" (create, clone and
\* delete log it and re-raise the same object), else the confirmation
TaskOutcome(c, t) ==
    IF t.state = "error" THEN Raised(t.error) ELSE Returned(Confirmation(c))

\* the poll loop of the five mutating tools and what follows it.  Each pass
\* reads task.info.state; the remote moves a task from queued to running to
\* success or error
wait_task ==
    /\ pc = "poll"
    /\ \/ /\ call.polls < MaxPolls
          /\ \E s \in {"queued", "running"} :
                /\ task.state = "running" => s = "running"
                /\ task' = [task EXCEPT !.state = s]
          /\ call' = [call EXCEPT !.polls = @ + 1]
          /\ UNCHANGED <<pc, result>>
       \/ /\ task' = [task EXCEPT !.state = "success"]
          /\ call' = call
          /\ result' = TaskOutcome(call, task')
          /\ pc' = "idle"
       \/ /\ \E f \in RemoteFaults : task' = [task EXCEPT !.state = "error", !.error = f]
          /\ call' = call
          /\ result' = TaskOutcome(call, task')
          /\ pc' = "idle"
    /\ UNCHANGED <<program, _manager, mgr, sessions, views>>

----------------------------------------------------------------------------
(* app/main.py: find_vm_by_mac *)

\* strings the regular expression works on are sequences of characters
HexDigits == {"0", "1", "2", "3", "4", "5", "6", "7", "8", "9",
              "a", "b", "c", "d", "e", "f", "A", "B", "C", "D", "E", "F"}

\* str.lower on what the substitution leaves
Lower(ch) ==
    CASE ch = "A" -> "a" [] ch = "B" -> "b" [] ch = "C" -> "c"
      [] ch = "D" -> "d" [] ch = "E" -> "e" [] ch = "F" -> "f"
      [] OTHER -> ch

\* the character class [a-fA-F0-9]
IsHexDigit(ch) == ch \in HexDigits

\* a cleaning that strips the separators and keeps the case
CleanMac_CaseKept(mac) == SelectSeq(mac, IsHexDigit)

\* re.sub(r'[^a-fA-F0-9]', '', mac).lower()
CleanMac(mac) ==
    LET kept == SelectSeq(mac, IsHexDigit)
    IN  [i \in 1..Len(kept) |-> Lower(kept[i])]

\* the characters target addresses are written with
Chars == {"a", "A", ":"}
Targets == SeqsUpTo(Chars, MaxMacLen)

\* a virtual device; a VirtualEthernetCard may carry no macAddress (None)
Device(t, hasMac, mac) == [type |-> t, hasMac |-> hasMac, macAddress |-> mac]
DeviceMacs == {<<"a", ":", "A">>, <<"A", "a">>, <<"a">>}
Devices ==
    {Device("VirtualDisk", FALSE, <<>>), Device("VirtualEthernetCard", FALSE, <<>>)}
    \cup {Device("VirtualEthernetCard", TRUE, m) : m \in DeviceMacs}

\* a VM's config: None, without hardware, or with a device list
ConfigsWith(j) ==
    IF j = 0
    THEN {[config |-> "None", devices |-> <<>>], [config |-> "no hardware", devices |-> <<>>],
          [config |-> "hardware", devices |-> <<>>]}
    ELSE {[config |-> "hardware", devices |-> d] : d \in [1..j -> Devices]}

\* the config lists of at most n VMs with at most k devices together
RECURSIVE ConfigLists(_, _)
ConfigLists(n, k) ==
    IF n = 0 THEN {<<>>}
    ELSE {<<>>} \cup
         UNION {{<<v>> \o rest : v \in ConfigsWith(j), rest \in ConfigLists(n - 1, k - j)} :
                j \in 0..k}

\* the container views of app/main.py; the VMs are named by their place
AppListings ==
    {[i \in 1..Len(l) |->
        [type |-> "VirtualMachine", ref |-> i, name |-> "vm" \o ToString(i),
         config |-> l[i].config, devices |-> l[i].devices]] :
     l \in ConfigLists(MaxVMs, MaxDevices)}

\* the inner loop from device j on: the first VirtualEthernetCard that matches,
\* or that has no macAddress (re.sub raises TypeError on None)
RECURSIVE ScanDevices(_, _, _)
ScanDevices(devices, j, clean_target) ==
    IF j > Len(devices) THEN [kind |-> "none", device |-> 0]
    ELSE IF devices[j].type # "VirtualEthernetCard" THEN ScanDevices(devices, j + 1, clean_target)
    ELSE IF ~devices[j].hasMac THEN [kind |-> "raise", device |-> j]
    ELSE IF CleanMac(devices[j].macAddress) = clean_target THEN [kind |-> "match", device |-> j]
    ELSE ScanDevices(devices, j + 1, clean_target)

\* the outer loop from VM i on
RECURSIVE ScanVMs(_, _, _)
ScanVMs(listing, i, clean_target) ==
    IF i > Len(listing) THEN [kind |-> "none", vm |-> 0, device |-> 0]
    ELSE IF listing[i].config # "hardware" THEN ScanVMs(listing, i + 1, clean_target)
    ELSE LET d == ScanDevices(listing[i].devices, 1, clean_target)
         IN  IF d.kind = "none" THEN ScanVMs(listing, i + 1, clean_target)
             ELSE [kind |-> d.kind, vm |-> i, device |-> d.device]

TypeError == PyException("expected string or bytes-like object", "")

\* VMwareManager.find_vm_by_mac up to the call of _get_parent_info: the view is
\* created, the loops run inside try, and finally destroys the view
find_vm_by_mac ==
    /\ program = "app"
    /\ pc = "ready"
    /\ \E target_mac \in Targets, listing \in AppListings :
        LET clean_target == CleanMac(target_mac)
            scan == ScanVMs(listing, 1, clean_target)
            c == [NoCall EXCEPT !.op = "find_vm_by_mac", !.frame = "find_vm_by_mac",
                                !.target = target_mac, !.listing = listing,
                                !.scan = scan.kind,
                                !.selected = [vm |-> scan.vm, device |-> scan.device]]
        IN  \/ /\ scan.kind = "none"
               /\ result' = Returned([text |-> "No VM found with MAC address",
                                      target |-> target_mac])
               /\ call' = c
               /\ views' = views
               /\ pc' = "idle"
            \/ /\ scan.kind = "raise"
               /\ result' = Raised(TypeError)
               /\ call' = c
               /\ views' = views
               /\ pc' = "idle"
            \/ /\ scan.kind = "match"
               /\ result' = NoResult
               /\ call' = [c EXCEPT !.match =
                              [name |-> listing[scan.vm].name,
                               macAddress |-> listing[scan.vm].devices[scan.device].macAddress]]
               /\ views' = views + 1
               /\ pc' = "parent_info"
    /\ UNCHANGED <<program, _manager, mgr, sessions, task>>

\* vm.runtime.host: None, a host of a cluster, or a standalone host
Hosts == {[name |-> "", parentType |-> "None", parentName |-> ""],
          [name |-> "esx1", parentType |-> "ClusterComputeResource", parentName |-> "cl1"],
          [name |-> "esx2", parentType |-> "ComputeResource", parentName |-> "esx2"]}

\* the VM's ancestors: kinds[i] is the type of the i-th one (the VM's parent is
\* the first, none when kinds is empty); the parent of the last one is None
\* (back = 0) or the earlier ancestor `back`
ParentChains ==
    UNION {{[kinds |-> ks, back |-> b] : ks \in [1..n -> {"Folder", "Datacenter"}],
                                         b \in 0..(IF n = 0 THEN 0 ELSE n - 1)} :
           n \in 0..MaxChain}

\* curr.parent, 0 for None
ParentOf(chain, curr) ==
    IF curr < Len(chain.kinds) THEN curr + 1 ELSE chain.back

\* _get_parent_info, step 1: the cluster or host name
ClusterName(host) ==
    IF host.parentType = "None" THEN "Unknown"
    ELSE IF host.parentType = "ClusterComputeResource" THEN host.parentName
    ELSE host.name

\* _get_parent_info is entered with the matching VM; step 1 reads its host.
\* From here on `call` holds the locals of _get_parent_info and the match; the
\* lists and the target of find_vm_by_mac are not read again
get_parent_info ==
    /\ pc = "parent_info"
    /\ \E host \in Hosts :
        call' = [NoCall EXCEPT !.op = call.op, !.frame = "_get_parent_info",
                               !.match = call.match, !.host = host,
                               !.info = [datacenter |-> "Unknown", cluster |-> ClusterName(host)]]
    /\ pc' = "vm_parent"
    /\ UNCHANGED <<program, _manager, mgr, sessions, views, task, result>>

\* _get_parent_info, step 2: curr = vm.parent, the first of the VM's ancestors
vm_parent ==
    /\ pc = "vm_parent"
    /\ \E chain \in ParentChains :
        call' = [call EXCEPT !.chain = chain,
                             !.curr = IF chain.kinds = <<>> THEN 0 ELSE 1]
    /\ pc' = "walk"
    /\ UNCHANGED <<program, _manager, mgr, sessions, views, task, result>>

\* one test of `while curr:` in _get_parent_info.  When the loop ends the info
\* is returned, find_vm_by_mac builds its result, leaves both loops, destroys
\* the view in finally and returns
parent_walk ==
    /\ pc = "walk"
    /\ \/ /\ call.curr # 0
          /\ call.chain.kinds[call.curr] # "Datacenter"
          /\ call' = [call EXCEPT !.curr = ParentOf(call.chain, call.curr)]
          /\ UNCHANGED <<pc, views, result>>
       \/ /\ IF call.curr = 0 THEN TRUE ELSE call.chain.kinds[call.curr] = "Datacenter"
          /\ LET info == IF call.curr = 0 THEN call.info
                         ELSE [call.info EXCEPT !.datacenter = "dc" \o ToString(call.curr)]
             IN  /\ call' = [call EXCEPT !.info = info]
                 /\ result' = Returned([text |-> "Found VM", name |-> call.match.name,
                                        datacenter |-> info.datacenter,
                                        cluster |-> info.cluster,
                                        macAddress |-> call.match.macAddress])
          /\ views' = views - 1
          /\ pc' = "idle"
    /\ UNCHANGED <<program, _manager, mgr, sessions, task>>

----------------------------------------------------------------------------
Init ==
    /\ program \in {"server", "app"}
    /\ _manager = None
    /\ mgr = None
    /\ sessions = 0
    /\ views = 0
    /\ pc = "idle"
    /\ call = NoCall
    /\ task = NoTask
    /\ result = NoResult

Next ==
    \/ get_manager
    \/ connect_datacenter
    \/ connect_compute
    \/ connect_datastore
    \/ connect_network
    \/ app_get_manager
    \/ list_vms
    \/ power_on_vm
    \/ power_off_vm
    \/ delete_vm
    \/ clone_vm
    \/ create_vm
    \/ get_vm_performance
    \/ wait_task
    \/ find_vm_by_mac
    \/ get_parent_info
    \/ vm_parent
    \/ parent_walk

Spec == Init /\ [][Next]_vars

\* the loop of _get_parent_info is straight-line code: it keeps running
LiveSpec == Spec /\ WF_vars(parent_walk)

----------------------------------------------------------------------------
(* The first invocation of a server process, by its environment *)

\* values of VCENTER_INSECURE
InsecureValues ==
    {NotSet} \cup
    {SetTo(v) : v \in {<<>>, <<"1">>, <<"0">>, <<"t", "r", "u", "e">>,
                        <<"T", "R", "U", "E">>, <<"T", "r", "u", "e">>,
                        <<"y", "e", "s">>, <<"Y", "e", "s">>, <<"n", "o">>,
                        <<"f", "a", "l", "s", "e">>, <<"o", "n">>,
                        <<"t", "r", "u", "e", " ">>, <<"y">>}}

\* the environments a server process starts in: the required variables unset,
\* empty or set, and the values of VCENTER_INSECURE
ConfigEnvironments ==
    [VCENTER_HOST : {Unset, "", "vc1"}, VCENTER_USER : {Unset, "", "admin"},
     VCENTER_PASSWORD : {Unset, "", "secret"},
     VCENTER_DATACENTER : {Unset}, VCENTER_CLUSTER : {Unset},
     VCENTER_DATASTORE : {Unset}, VCENTER_NETWORK : {Unset, "net1"},
     VCENTER_INSECURE : InsecureValues]

ConfigInit ==
    /\ program = "server"
    /\ _manager = None
    /\ mgr = None
    /\ sessions = 0
    /\ views = 0
    /\ pc = "idle"
    /\ call \in {[NoCall EXCEPT !.environ = env] : env \in ConfigEnvironments}
    /\ task = NoTask
    /\ result = NoResult

\* get_manager in the environment the process was started in
get_manager_environ ==
    /\ program = "server"
    /\ pc = "idle"
    /\ _manager = None
    /\ task' = NoTask
    /\ Construct(call.environ, call)

ConfigNext ==
    \/ get_manager_environ
    \/ connect_datacenter
    \/ connect_compute
    \/ connect_datastore
    \/ connect_network

ConfigSpec == ConfigInit /\ [][ConfigNext]_vars

----------------------------------------------------------------------------
(* The tool functions over a mock manager, as test_server.py runs them *)

\* a keyword argument that the caller leaves out
Omitted == "<omitted>"

\* the manager's methods
Methods == {"list_vms", "create_vm", "clone_vm", "delete_vm", "power_on_vm",
            "power_off_vm", "get_vm_performance"}

\* the return values the fixture gives the mock's methods, and a second set
\* of values of the same types
ReturnValues ==
    {[list_vms |-> <<"vm1", "vm2", "vm3">>,
      create_vm |-> "VM 'test-vm' created.",
      clone_vm |-> "VM 'clone-vm' cloned from 'template'.",
      delete_vm |-> "VM 'test-vm' deleted.",
      power_on_vm |-> "VM 'test-vm' powered on.",
      power_off_vm |-> "VM 'test-vm' powered off.",
      get_vm_performance |-> [cpu_usage |-> 100, memory_usage |-> 512,
                              network_transmit_KBps |-> 1000,
                              network_receive_KBps |-> 500]],
     [list_vms |-> <<>>,
      create_vm |-> "VM 'vm2' created.",
      clone_vm |-> "VM 'vm2' cloned from 'vm1'.",
      delete_vm |-> "VM 'vm2' deleted.",
      power_on_vm |-> "VM 'vm2' is already powered on.",
      power_off_vm |-> "VM 'vm2' is already powered off.",
      get_vm_performance |-> [cpu_usage |-> 0, memory_usage |-> 0,
                              network_transmit_KBps |-> PyNone,
                              network_receive_KBps |-> PyNone]]}

\* Mock(spec=server.VMwareManager) with its return values set
MockManager(values) == [type |-> "Mock", return_value |-> values, mock_calls |-> <<>>]

\* the keyword arguments of an invocation; a tool function reads its own
NoArguments ==
    [name |-> Omitted, cpu |-> Omitted, memory |-> Omitted, datastore |-> Omitted,
     network |-> Omitted, template_name |-> Omitted, new_name |-> Omitted,
     vm_name |-> Omitted]

ToolNames == {"test-vm", "vm2"}
CpuCounts == {2, 4}
MemorySizes == {1024, 2048}

\* the invocations of the tool functions: which function, with which keyword
\* arguments
Invocations ==
    {[op |-> "_list_vms", given |-> NoArguments]}
    \cup {[op |-> "_create_vm",
           given |-> [NoArguments EXCEPT !.name = n, !.cpu = c, !.memory = m,
                                         !.datastore = d, !.network = w]] :
             n \in ToolNames, c \in CpuCounts, m \in MemorySizes,
             d \in {Omitted, Unset, "ds1"}, w \in {Omitted, Unset, "net1"}}
    \cup {[op |-> "_clone_vm",
           given |-> [NoArguments EXCEPT !.template_name = t, !.new_name = n]] :
             t \in {"template", "vm1"}, n \in ToolNames}
    \cup {[op |-> fn, given |-> [NoArguments EXCEPT !.name = n]] :
             fn \in {"_delete_vm", "_power_on", "_power_off"}, n \in ToolNames}
    \cup {[op |-> "_get_vm_stats", given |-> [NoArguments EXCEPT !.vm_name = n]] :
             n \in ToolNames}

\* a parameter declared `= None`
DefaultNone(v) == IF v = Omitted THEN Unset ELSE v

\* the positional arguments _create_vm passes, with cpu and memory exchanged
CreateArguments_Exchanged(given) ==
    <<given.name, given.memory, given.cpu, DefaultNone(given.datastore),
      DefaultNone(given.network)>>

\* get_manager().create_vm(name, cpu, memory, datastore, network)
CreateArguments(given) ==
    <<given.name, given.cpu, given.memory, DefaultNone(given.datastore),
      DefaultNone(given.network)>>

\* return get_manager().<method>(*args), get_manager patched to return the
\* mock: the mock records the call and gives its return value
Delegate(method, args) ==
    /\ _manager' = [_manager EXCEPT !.mock_calls = Append(@, [method |-> method, args |-> args])]
    /\ result' = Returned(_manager.return_value[method])
    /\ pc' = "idle"
    /\ UNCHANGED <<program, mgr, sessions, views, call, task>>

_list_vms ==
    /\ pc = "tool"
    /\ call.op = "_list_vms"
    /\ Delegate("list_vms", <<>>)

_create_vm ==
    /\ pc = "tool"
    /\ call.op = "_create_vm"
    /\ Delegate("create_vm", CreateArguments(call.given))

_clone_vm ==
    /\ pc = "tool"
    /\ call.op = "_clone_vm"
    /\ Delegate("clone_vm", <<call.given.template_name, call.given.new_name>>)

_delete_vm ==
    /\ pc = "tool"
    /\ call.op = "_delete_vm"
    /\ Delegate("delete_vm", <<call.given.name>>)

_power_on ==
    /\ pc = "tool"
    /\ call.op = "_power_on"
    /\ Delegate("power_on_vm", <<call.given.name>>)

_power_off ==
    /\ pc = "tool"
    /\ call.op = "_power_off"
    /\ Delegate("power_off_vm", <<call.given.name>>)

_get_vm_stats ==
    /\ pc = "tool"
    /\ call.op = "_get_vm_stats"
    /\ Delegate("get_vm_performance", <<call.given.vm_name>>)

\* the fixtures are set up and a tool function is about to be called
ToolInit ==
    /\ program = "server"
    /\ _manager \in {MockManager(values) : values \in ReturnValues}
    /\ mgr = None
    /\ sessions = 0
    /\ views = 0
    /\ pc = "tool"
    /\ call \in Invocations
    /\ task = NoTask
    /\ result = NoResult

ToolNext ==
    \/ _list_vms
    \/ _create_vm
    \/ _clone_vm
    \/ _delete_vm
    \/ _power_on
    \/ _power_off
    \/ _get_vm_stats

ToolSpec == ToolInit /\ [][ToolNext]_vars

----------------------------------------------------------------------------
(* Properties *)

\* C1: power_on_vm on a VM observed poweredOn returns the "already powered on"
\* message and submits no task; power_off_vm on a VM observed poweredOff
\* returns "already powered off" and submits no task; for every other observed
\* power state the operation submits exactly one task, of its own kind.
C1_PowerIdempotent ==
    /\ (call.op = "power_on_vm" /\ call.powerState = "poweredOn") =>
            /\ result = Returned(Message("is already powered on", call.name))
            /\ call.tasks = <<>>
            /\ task = NoTask
            /\ pc = "idle"
    /\ (call.op = "power_off_vm" /\ call.powerState = "poweredOff") =>
            /\ result = Returned(Message("is already powered off", call.name))
            /\ call.tasks = <<>>
            /\ task = NoTask
            /\ pc = "idle"
    /\ (call.op = "power_on_vm" /\ call.powerState \in PowerStates \ {"poweredOn"}) =>
            /\ call.tasks = <<"PowerOnVM_Task">>
            /\ task.kind = "PowerOnVM_Task"
    /\ (call.op = "power_off_vm" /\ call.powerState \in PowerStates \ {"poweredOff"}) =>
            /\ call.tasks = <<"PowerOffVM_Task">>
            /\ task.kind = "PowerOffVM_Task"

\* power_on_vm has answered for a VM it observed powered on
C1_Witness ==
    /\ call.op = "power_on_vm"
    /\ call.powerState = "poweredOn"
    /\ result.status = "return"

\* the tools that submit a task and wait for it
MutatingOps == {"create_vm", "clone_vm", "delete_vm", "power_on_vm", "power_off_vm"}

\* C2: once a task is submitted, the operation's outcome is fixed by the
\* task's terminal state alone: no outcome while the state is not terminal,
\* the confirmation on "success", and on "error" the task's error object
\* itself, raised unchanged, whatever number of non-terminal observations came
\* before.
C2_TaskOutcome ==
    (call.op \in MutatingOps /\ call.tasks # <<>>) =>
        /\ task.state \in {"submitted", "queued", "running"} =>
                pc = "poll" /\ result = NoResult
        /\ task.state = "error" =>
                pc = "idle" /\ result.status = "raise" /\ result.exc = task.error
        /\ task.state = "success" =>
                /\ pc = "idle"
                /\ result.status = "return"
                /\ result.value.name = (IF call.op = "clone_vm" THEN call.new_name ELSE call.name)
                /\ result.value.text =
                      (CASE call.op = "create_vm" -> "created"
                         [] call.op = "clone_vm" -> "cloned from"
                         [] call.op = "delete_vm" -> "deleted"
                         [] call.op = "power_on_vm" -> "powered on"
                         [] call.op = "power_off_vm" -> "powered off")
        /\ task.state \in {"submitted", "queued", "running", "error", "success"}

\* a task failed after non-terminal observations and its error was raised
C2_Witness ==
    /\ call.op \in MutatingOps
    /\ task.state = "error"
    /\ call.polls > 0
    /\ result = Raised(task.error)

\* the tools of server.py that resolve a VM by name
LookupOps == {"clone_vm", "delete_vm", "power_on_vm", "power_off_vm", "get_vm_performance"}

\* one of the not-found exceptions, carrying the name that was asked for
NotFound(res, texts, name) ==
    /\ res.status = "raise"
    /\ res.exc.type = "Exception"
    /\ res.exc.text \in texts
    /\ res.exc.arg = name

\* C3: an operation whose target cannot be resolved fails with a not-found
\* error and submits no task: a VM name (a template name for clone_vm) that no
\* VM of the listing carries, and for create_vm a given datastore or network
\* name that no object of the datacenter carries.
C3_NotFoundFailsFast ==
    /\ (/\ call.op \in LookupOps
        /\ call.fault = 0
        /\ \A i \in 1..Len(call.listing) : call.listing[i].name # call.name) =>
            /\ NotFound(result, {"Virtual machine not found", "VM not found",
                                 "Template virtual machine not found"}, call.name)
            /\ call.tasks = <<>>
            /\ task = NoTask
            /\ pc = "idle"
    /\ (/\ call.op = "create_vm"
        /\ Truthy(call.datastore)
        /\ \A i \in 1..Len(call.dsChildren) :
              ~(call.dsChildren[i].type = "Datastore" /\ call.dsChildren[i].name = call.datastore)) =>
            /\ NotFound(result, {"Specified datastore not found"}, call.datastore)
            /\ call.tasks = <<>>
            /\ task = NoTask
            /\ pc = "idle"
    /\ (/\ call.op = "create_vm"
        /\ Truthy(call.network)
        /\ Truthy(call.datastore) =>
              \E i \in 1..Len(call.dsChildren) :
                  call.dsChildren[i].type = "Datastore" /\ call.dsChildren[i].name = call.datastore
        /\ \A i \in 1..Len(call.netChildren) : call.netChildren[i].name # call.network) =>
            /\ NotFound(result, {"Specified network not found"}, call.network)
            /\ call.tasks = <<>>
            /\ task = NoTask
            /\ pc = "idle"

\* create_vm was given a datastore name that the datastore folder, which is
\* not empty, does not hold
C3_Witness ==
    /\ call.op = "create_vm"
    /\ call.datastore = "ds1"
    /\ call.dsChildren # <<>>
    /\ \A i \in 1..Len(call.dsChildren) :
          ~(call.dsChildren[i].type = "Datastore" /\ call.dsChildren[i].name = "ds1")
    /\ result.status = "raise"

\* C4: every container view an operation creates is destroyed before the
\* operation returns, on normal completion and when the operation ends with an
\* exception: no view is left once a tool has answered.
C4_ViewsDestroyed == pc = "idle" => views = 0

\* the VM's ancestors that the walk can visit hold a datacenter
HasDatacenterAncestor(chain) ==
    \E i \in 1..Len(chain.kinds) : chain.kinds[i] = "Datacenter"

\* C5: the walk of _get_parent_info always terminates, also on a parent chain
\* that contains a cycle, and the answer names the datacenter and the cluster
\* "Unknown" when the VM has no datacenter ancestor and no host.
C5_WalkTerminates ==
    /\ (pc = "walk") ~> (pc = "idle")
    /\ [](  (/\ pc = "idle"
             /\ call.frame = "_get_parent_info"
             /\ call.host.parentType = "None"
             /\ ~HasDatacenterAncestor(call.chain))
          => (/\ result.status = "return"
              /\ result.value.datacenter = "Unknown"
              /\ result.value.cluster = "Unknown"))

\* C6: the process holds at most one connected session, also when an
\* invocation failed during the manager's initialization after the connection
\* was made and a later invocation initializes again.
C6_OneSession == sessions <= 1

\* the normalized form of an address: the characters that are not hexadecimal
\* digits removed, the letters in lower case
LowerHex == {"0", "1", "2", "3", "4", "5", "6", "7", "8", "9", "a", "b", "c", "d", "e", "f"}

Fold(ch) ==
    CASE ch = "A" -> <<"a">> [] ch = "B" -> <<"b">> [] ch = "C" -> <<"c">>
      [] ch = "D" -> <<"d">> [] ch = "E" -> <<"e">> [] ch = "F" -> <<"f">>
      [] ch \in LowerHex -> <<ch>>
      [] OTHER -> <<>>

RECURSIVE Normalized(_)
Normalized(mac) ==
    IF mac = <<>> THEN <<>> ELSE Fold(Head(mac)) \o Normalized(Tail(mac))

\* the lookup is at the point where it has scanned the listing
Scanned == call.op = "find_vm_by_mac" /\ call.frame = "find_vm_by_mac"

\* the outcome of scanning `listing` for `target`, as find_vm_by_mac computes it
ScanOf(listing, target) ==
    LET scan == ScanVMs(listing, 1, CleanMac(target))
    IN  [scan |-> scan.kind, selected |-> [vm |-> scan.vm, device |-> scan.device]]

\* C7: matching by MAC address depends on the normalized addresses only: a
\* target selects the same VM and NIC (or none, or fails alike) as its
\* normalized form does in the same listing, so any two targets with the same
\* normalized form select the same; the NIC that is selected has the target's
\* normalized address, and no NIC with an address that the scan passed
\* without selecting it has it.
C7_NormalizedMatch ==
    Scanned =>
        /\ Normalized(call.target) \in Targets
        /\ ScanOf(call.listing, Normalized(call.target))
              = [scan |-> call.scan, selected |-> call.selected]
        /\ call.scan = "match" =>
              Normalized(call.listing[call.selected.vm].devices[call.selected.device].macAddress)
                  = Normalized(call.target)
        /\ call.scan \in {"none", "match"} =>
              \A i \in 1..Len(call.listing) :
                  \A j \in 1..Len(call.listing[i].devices) :
                      LET device == call.listing[i].devices[j]
                          passed == \/ call.scan = "none"
                                    \/ i < call.selected.vm
                                    \/ i = call.selected.vm /\ j < call.selected.device
                      IN  (passed /\ device.type = "VirtualEthernetCard" /\ device.hasMac) =>
                              Normalized(device.macAddress) # Normalized(call.target)

\* a NIC was selected whose address is written differently from the target
C7_Witness ==
    /\ Scanned
    /\ call.scan = "match"
    /\ call.match.macAddress # call.target
    /\ Len(call.match.macAddress) # Len(call.target)

\* C8: in get_vm_performance, once the VM is found, a failure inside the
\* network query is swallowed: the operation returns with the CPU, memory and
\* storage fields computed from the summary and with both network fields None.
C8_NetworkFailureSwallowed ==
    (/\ call.op = "get_vm_performance"
     /\ call.vm # None
     /\ NetworkQuery(call.counters, call.query).raised) =>
        /\ pc = "idle"
        /\ result.status = "return"
        /\ result.value.cpu_usage = call.summary.cpu
        /\ result.value.memory_usage = call.summary.mem
        /\ result.value.storage_usage = StorageUsage(call.summary.storage)
        /\ result.value.network_transmit_KBps = PyNone
        /\ result.value.network_receive_KBps = PyNone

\* the metrics query itself raised, for a VM that has network counters
C8_Witness ==
    /\ call.op = "get_vm_performance"
    /\ call.vm # None
    /\ ~call.counters.raised
    /\ call.counters.list # <<>>
    /\ call.query.raised
    /\ result.status = "return"

\* some NIC of the listing has the target's normalized address
SomeNicMatches(listing, target) ==
    \E i \in 1..Len(listing) :
        /\ listing[i].config = "hardware"
        /\ \E j \in 1..Len(listing[i].devices) :
              /\ listing[i].devices[j].type = "VirtualEthernetCard"
              /\ listing[i].devices[j].hasMac
              /\ Normalized(listing[i].devices[j].macAddress) = Normalized(target)

\* C9: a lookup that matches nothing answers not-found and never raises:
\* find_vm returns None, and find_vm_by_mac returns its "No VM found" answer,
\* also for VMs without config or hardware and for NICs without an address.
C9_NoMatchNeverRaises ==
    /\ (/\ call.op \in LookupOps
        /\ call.fault = 0
        /\ \A i \in 1..Len(call.listing) : call.listing[i].name # call.name) =>
            call.vm = None
    /\ (Scanned /\ ~SomeNicMatches(call.listing, call.target)) =>
            result = Returned([text |-> "No VM found with MAC address", target |-> call.target])

\* VM i of the listing has NIC j with the target's normalized address
NicMatches(listing, i, j, target) ==
    /\ listing[i].config = "hardware"
    /\ j \in 1..Len(listing[i].devices)
    /\ listing[i].devices[j].type = "VirtualEthernetCard"
    /\ listing[i].devices[j].hasMac
    /\ Normalized(listing[i].devices[j].macAddress) = Normalized(target)

\* C10: when several candidates match, the lookups select the first in
\* traversal order: find_vm returns the VM of that name at the smallest index
\* of the listing, and find_vm_by_mac reports the VM at the smallest index
\* that has a NIC with the requested normalized address and, within it, the
\* first such NIC in device order.
C10_FirstMatch ==
    /\ (/\ call.op \in LookupOps
        /\ call.fault = 0
        /\ \E i \in 1..Len(call.listing) : call.listing[i].name = call.name) =>
            /\ call.vm # None
            /\ call.vm.name = call.name
            /\ \A i \in 1..Len(call.listing) :
                  call.listing[i].name = call.name => call.vm.ref <= call.listing[i].ref
    /\ (Scanned /\ SomeNicMatches(call.listing, call.target)) =>
            /\ call.scan = "match"
            /\ NicMatches(call.listing, call.selected.vm, call.selected.device, call.target)
            /\ \A i \in 1..Len(call.listing) :
                  \A j \in 1..Len(call.listing[i].devices) :
                      NicMatches(call.listing, i, j, call.target) =>
                          \/ call.selected.vm < i
                          \/ call.selected.vm = i /\ call.selected.device <= j

\* the first object of one of `kinds` in a listing, None when there is none
FirstOfKind(children, kinds) ==
    LET at == {i \in 1..Len(children) : children[i].type \in kinds}
    IN  IF at = {} THEN None
        ELSE children[CHOOSE i \in at : \A j \in at : i <= j]

\* the first object of one of `kinds` called `name`, None when there is none
NamedOfKind(children, kinds, name) ==
    LET at == {i \in 1..Len(children) :
                  children[i].type \in kinds /\ children[i].name = name}
    IN  IF at = {} THEN None
        ELSE children[CHOOSE i \in at : \A j \in at : i <= j]

NetworkKinds == {"Network", "DistributedVirtualPortgroup"}

\* one step of the manager's construction selects as configured.  The folder
\* listing the step selects from is call.children, the settings are
\* mgr.config; networkDefault says what an unconfigured network becomes: the
\* first object of the network folder (TRUE) or no network at all (FALSE)
SelectsAsConfigured(networkDefault) ==
    LET cfg == mgr.config
        ch == call.children
        fails == pc' = "idle" /\ result'.status = "raise" /\ _manager' = None
    IN  /\ pc = "init_datacenter" =>
              LET want == IF Truthy(cfg.datacenter)
                          THEN NamedOfKind(ch, {"Datacenter"}, cfg.datacenter)
                          ELSE FirstOfKind(ch, {"Datacenter"})
              IN  IF want = None THEN fails
                  ELSE pc' = "init_compute" /\ mgr'.datacenter_obj = want
        /\ pc = "init_compute" =>
              LET want == IF Truthy(cfg.cluster)
                          THEN NamedOfKind(ch, {"ClusterComputeResource"}, cfg.cluster)
                          ELSE FirstOfKind(ch, {"ComputeResource", "ClusterComputeResource"})
              IN  IF want = None THEN fails
                  ELSE /\ pc' = "init_datastore"
                       /\ mgr'.resource_pool.type = "ResourcePool"
                       /\ mgr'.resource_pool.name = want.name
                       /\ mgr'.datacenter_obj = mgr.datacenter_obj
        /\ pc = "init_datastore" =>
              LET stores == {i \in 1..Len(ch) : ch[i].type = "Datastore"}
                  want == NamedOfKind(ch, {"Datastore"}, cfg.datastore)
              IN  IF Truthy(cfg.datastore)
                  THEN IF want = None THEN fails
                       ELSE pc' = "init_network" /\ mgr'.datastore_obj = want
                  ELSE IF stores = {} THEN fails
                       ELSE /\ pc' = "init_network"
                            /\ \E i \in stores : mgr'.datastore_obj = ch[i]
                            /\ \A i \in stores : ch[i].freeSpace <= mgr'.datastore_obj.freeSpace
                            /\ mgr'.datacenter_obj = mgr.datacenter_obj
                            /\ mgr'.resource_pool = mgr.resource_pool
        /\ pc = "init_network" =>
              LET named == NamedOfKind(ch, NetworkKinds, cfg.network)
                  want == IF Truthy(cfg.network) THEN named
                          ELSE IF networkDefault THEN FirstOfKind(ch, NetworkKinds)
                          ELSE None
              IN  IF Truthy(cfg.network) /\ named = None THEN fails
                  ELSE /\ pc' = "ready"
                       /\ _manager'.network_obj = want
                       /\ _manager'.datacenter_obj = mgr.datacenter_obj
                       /\ _manager'.resource_pool = mgr.resource_pool
                       /\ _manager'.datastore_obj = mgr.datastore_obj

TrueSpellings ==
    {<<"1">>}
    \cup {<<t, r, u, e>> : t \in {"t", "T"}, r \in {"r", "R"}, u \in {"u", "U"}, e \in {"e", "E"}}
    \cup {<<y, e, s>> : y \in {"y", "Y"}, e \in {"e", "E"}, s \in {"s", "S"}}

\* a required variable is unset or empty
MissingRequired(env) ==
    \E v \in {env.VCENTER_HOST, env.VCENTER_USER, env.VCENTER_PASSWORD} : v \in {Unset, ""}

\* C12: when any of VCENTER_HOST, VCENTER_USER, VCENTER_PASSWORD is unset or
\* empty, the first invocation fails with 'Missing required ...' and no
\* connection is attempted (no session, no manager); otherwise the Config the
\* manager is built from carries the three values unchanged and has insecure
\* true exactly when VCENTER_INSECURE is set to a spelling of '1', 'true' or
\* 'yes' in any case (false when it is unset).
C12_LoadConfig ==
    LET env == call.environ
    IN  /\ MissingRequired(env) =>
              /\ sessions = 0 /\ mgr = None /\ _manager = None /\ pc = "idle"
              /\ result \in {NoResult,
                             Raised(PyException("Missing required environment variables", ""))}
        /\ mgr # None =>
              /\ ~MissingRequired(env)
              /\ mgr.config.vcenter_host = env.VCENTER_HOST
              /\ mgr.config.vcenter_user = env.VCENTER_USER
              /\ mgr.config.vcenter_password = env.VCENTER_PASSWORD
              /\ mgr.config.insecure = (/\ env.VCENTER_INSECURE.present
                                        /\ env.VCENTER_INSECURE.chars \in TrueSpellings)

\* a manager is being built from a Config with insecure true, read from
\* VCENTER_INSECURE=TRUE
C12_Witness ==
    /\ mgr # None
    /\ call.environ.VCENTER_INSECURE = SetTo(<<"T", "R", "U", "E">>)
    /\ call.environ.VCENTER_HOST = "vc1"
    /\ mgr.config.insecure

\* the manager method each tool function stands for
MethodOf(fn) ==
    CASE fn = "_list_vms" -> "list_vms"
      [] fn = "_create_vm" -> "create_vm"
      [] fn = "_clone_vm" -> "clone_vm"
      [] fn = "_delete_vm" -> "delete_vm"
      [] fn = "_power_on" -> "power_on_vm"
      [] fn = "_power_off" -> "power_off_vm"
      [] fn = "_get_vm_stats" -> "get_vm_performance"

\* the arguments of the invocation in the order the tool function declares
\* them, None for a datastore or network left out
DeclaredArguments(fn, given) ==
    CASE fn = "_list_vms" -> <<>>
      [] fn = "_create_vm" ->
            <<given.name, given.cpu, given.memory,
              IF given.datastore = Omitted THEN Unset ELSE given.datastore,
              IF given.network = Omitted THEN Unset ELSE given.network>>
      [] fn = "_clone_vm" -> <<given.template_name, given.new_name>>
      [] fn \in {"_delete_vm", "_power_on", "_power_off"} -> <<given.name>>
      [] fn = "_get_vm_stats" -> <<given.vm_name>>

\* C13: when a tool function has returned, the manager has been called exactly
\* once, on the method the function stands for, with the function's arguments
\* unchanged and in the declared order (None for an omitted datastore or
\* network), and the function's result is the manager's return value.
C13_ToolsDelegate ==
    pc = "idle" =>
        /\ Len(_manager.mock_calls) = 1
        /\ _manager.mock_calls[1].method = MethodOf(call.op)
        /\ _manager.mock_calls[1].args = DeclaredArguments(call.op, call.given)
        /\ result = Returned(_manager.return_value[MethodOf(call.op)])

\* _create_vm has returned from a call that gave a datastore, left the
\* network out and had cpu and memory differ
C13_Witness ==
    /\ pc = "idle"
    /\ call.op = "_create_vm"
    /\ call.given.datastore = "ds1"
    /\ call.given.network = Omitted
    /\ _manager.mock_calls = << [method |-> "create_vm",
                                 args |-> <<"test-vm", 4, 2048, "ds1", Unset>>] >>
    /\ result = Returned("VM 'test-vm' created.")

\* C14: once the server's manager is constructed, no step changes it (default
\* datacenter, resource pool, default datastore, default network) or its
\* connection; a create_vm with a per-call datastore or network, succeeding
\* or failing, is such a step.
C14_SessionStateFrame ==
    [][(program = "server" /\ _manager # None) =>
          (_manager' = _manager /\ sessions' = sessions)]_vars

\* create_vm was submitted with a datastore and a network named for the call,
\* both other than the manager's defaults, which are still in place
C14_Witness ==
    /\ program = "server"
    /\ pc = "poll"
    /\ call.op = "create_vm"
    /\ call.datastore = "ds1"
    /\ call.network = "net1"
    /\ _manager.datastore_obj.name = "ds2"
    /\ _manager.network_obj = None

\* the sum of the samples of the series of the counters with the given keys
RECURSIVE SamplesOf(_, _)
SamplesOf(series, keys) ==
    IF series = <<>> THEN 0
    ELSE (IF Head(series).counterId \in keys THEN SumSeq(Head(series).value) ELSE 0)
         + SamplesOf(Tail(series), keys)

\* the keys under which pm.perfCounter lists the counter of that full name
KeysOf(counters, fullName) ==
    {counters[i].key : i \in {j \in 1..Len(counters) : counters[j].fullName = fullName}}

\* C15: when get_vm_performance has queried the network counters and the
\* query succeeded (the network fields are not None), network_transmit_KBps
\* is the sum of the samples of net.transmitted.average and
\* network_receive_KBps the sum of the samples of net.received.average,
\* whatever the order of the counters in pm.perfCounter and of the series in
\* the result.
C15_NetworkSums ==
    (/\ program = "server"
     /\ call.op = "get_vm_performance"
     /\ result.status = "return"
     /\ ~call.counters.raised
     /\ \E i \in 1..Len(call.counters.list) : IsNetCounter(call.counters.list[i])
     /\ result.value.network_transmit_KBps # PyNone) =>
        LET series == call.query.res[1]
            listed == call.counters.list
        IN  /\ result.value.network_transmit_KBps =
                   PyInt(SamplesOf(series, KeysOf(listed, "net.transmitted.average")))
            /\ result.value.network_receive_KBps =
                   PyInt(SamplesOf(series, KeysOf(listed, "net.received.average")))
====
